---- MODULE Spec2Model ----
(***************************************************************************)
(* Model of cvpysdk/recovery_targets.py: the RecoveryTargets catalog (the  *)
(* spec's TargetCatalog) and the RecoveryTarget object (the spec's         *)
(* Target).                                                                *)
(*                                                                         *)
(* Python values are tagged pairs <<tag, payload>>, x[1] the tag and x[2]  *)
(* the payload:                                                            *)
(*   "none"  None                 "bool"  a BOOLEAN                        *)
(*   "int"   an integer           "str"   a sequence of characters         *)
(*   "list"  a sequence           "dict"  a set of <<key, value>>          *)
(*   "err"   a raised exception, the payload names it                      *)
(*   "missing" an attribute that was never assigned                        *)
(*   "obj"   an object, the payload its attributes                         *)
(*   "attr"  the name of a property, as the argument of a read             *)
(* Keys of JSON documents are written as TLA+ strings; every string the    *)
(* code manipulates (names, identifiers, field values) is a sequence of    *)
(* one-character strings, so that lower() and str() act on characters.     *)
(***************************************************************************)
EXTENDS Integers, Sequences, FiniteSets, TLC

VARIABLES
    catalog,    \* the RecoveryTargets object's _recovery_targets, Missing before it is built
    target,     \* the RecoveryTarget object the caller holds, Missing before it is built
    lastList,   \* the last list answer the catalog loaded successfully
    lastOp,     \* the last operation: its arguments, its exchanges and its outcome
    refreshes   \* how many times the held RecoveryTarget has been refreshed

vars == <<catalog, target, lastList, lastOp, refreshes>>

(* ---------------------------- bounds ----------------------------------- *)

\* Longest list of records in a list response.
MaxRecords == 2
\* Most refresh() calls followed on one RecoveryTarget object.
MaxRefreshes == 1

(* ------------------------- Python values ------------------------------- *)

PyNone == <<"none", <<>>>>
PyBool(b) == <<"bool", b>>
PyInt(n) == <<"int", n>>
PyStr(s) == <<"str", s>>
PyList(s) == <<"list", s>>
PyDict(ps) == <<"dict", ps>>
Missing == <<"missing", <<>>>>
Err(k) == <<"err", k>>
NoErr == PyNone

IsErr(x) == x[1] = "err"

EmptyDict == PyDict({})
EmptyList == PyList(<<>>)
EmptyStr == PyStr(<<>>)

\* Exceptions the module raises or lets escape.
SDKException(module, code) == Err(<<"SDKException", module, code>>)
KeyError == Err(<<"KeyError">>)
IndexError == Err(<<"IndexError">>)
TypeError == Err(<<"TypeError">>)
AttributeError == Err(<<"AttributeError">>)

\* The spec's names for the SDKException kinds.
ResponseError101 == SDKException("Response", "101")
ResponseError102 == SDKException("Response", "102")
InvalidInputError == SDKException("Target", "101")
NotFoundError == SDKException("RecoveryTarget", "102")
IsResponseError(e) == e \in {ResponseError101, ResponseError102}

\* bool(x)
Truthy(x) ==
    CASE x[1] = "none" -> FALSE
      [] x[1] = "bool" -> x[2]
      [] x[1] = "int" -> x[2] # 0
      [] x[1] = "str" -> Len(x[2]) > 0
      [] x[1] = "list" -> Len(x[2]) > 0
      [] x[1] = "dict" -> x[2] # {}
      [] OTHER -> TRUE

\* x and y
PyAnd(x, y) == IF Truthy(x) THEN y ELSE x

\* isinstance(x, str)
IsInstanceStr(x) == x[1] = "str"

DictKeys(d) == {p[1] : p \in d[2]}
DictLookup(d, k) == (CHOOSE p \in d[2] : p[1] = k)[2]

\* k in d, for a dict d
KeyIn(k, d) == d[1] = "dict" /\ k \in DictKeys(d)

\* d.get(k, default); an exception reaching it is passed on
Get(d, k, default) ==
    IF IsErr(d) THEN d
    ELSE IF d[1] # "dict" THEN AttributeError
    ELSE IF k \in DictKeys(d) THEN DictLookup(d, k) ELSE default

\* d[k] for a string key k
Subscript(d, k) ==
    IF IsErr(d) THEN d
    ELSE IF d[1] # "dict" THEN TypeError
    ELSE IF k \in DictKeys(d) THEN DictLookup(d, k) ELSE KeyError

\* x[0]
First(x) ==
    IF IsErr(x) THEN x
    ELSE IF x[1] = "list" THEN (IF Len(x[2]) = 0 THEN IndexError ELSE x[2][1])
    ELSE IF x[1] = "str" THEN (IF Len(x[2]) = 0 THEN IndexError ELSE PyStr(<<x[2][1]>>))
    ELSE IF x[1] = "dict" THEN KeyError
    ELSE TypeError

\* d[k] = val on a dict
DictSet(d, k, val) == PyDict({p \in d[2] : p[1] # k} \cup {<<k, val>>})

(* ----------------------------- strings --------------------------------- *)

LowerChar(c) ==
    CASE c = "A" -> "a" [] c = "B" -> "b" [] c = "C" -> "c" [] c = "D" -> "d"
      [] c = "E" -> "e" [] c = "F" -> "f" [] c = "G" -> "g" [] c = "H" -> "h"
      [] c = "I" -> "i" [] c = "J" -> "j" [] c = "K" -> "k" [] c = "L" -> "l"
      [] c = "M" -> "m" [] c = "N" -> "n" [] c = "O" -> "o" [] c = "P" -> "p"
      [] c = "Q" -> "q" [] c = "R" -> "r" [] c = "S" -> "s" [] c = "T" -> "t"
      [] c = "U" -> "u" [] c = "V" -> "v" [] c = "W" -> "w" [] c = "X" -> "x"
      [] c = "Y" -> "y" [] c = "Z" -> "z" [] OTHER -> c

RECURSIVE LowerSeq(_)
LowerSeq(s) == IF s = <<>> THEN <<>> ELSE <<LowerChar(Head(s))>> \o LowerSeq(Tail(s))

\* x.lower()
Lower(x) ==
    IF IsErr(x) THEN x
    ELSE IF x[1] = "str" THEN PyStr(LowerSeq(x[2])) ELSE AttributeError

Digit(d) ==
    CASE d = 0 -> "0" [] d = 1 -> "1" [] d = 2 -> "2" [] d = 3 -> "3" [] d = 4 -> "4"
      [] d = 5 -> "5" [] d = 6 -> "6" [] d = 7 -> "7" [] d = 8 -> "8" [] d = 9 -> "9"

RECURSIVE Digits(_)
Digits(n) == IF n < 10 THEN <<Digit(n)>> ELSE Digits(n \div 10) \o <<Digit(n % 10)>>

\* str(x) and the {x} of an f-string
StrOf(x) ==
    IF IsErr(x) THEN x
    ELSE CASE x[1] = "str" -> x
           [] x[1] = "int" -> PyStr(IF x[2] < 0 THEN <<"-">> \o Digits(-x[2]) ELSE Digits(x[2]))
           [] x[1] = "none" -> PyStr(<<"N", "o", "n", "e">>)
           [] x[1] = "bool" -> PyStr(IF x[2] THEN <<"T", "r", "u", "e">>
                                             ELSE <<"F", "a", "l", "s", "e">>)
           [] OTHER -> PyStr(<<"?">>)

CLEAN_ROOM == <<"C", "L", "E", "A", "N", "_", "R", "O", "O", "M">>
REGULAR == <<"R", "E", "G", "U", "L", "A", "R">>

(* ------------------------- the list endpoint --------------------------- *)

\* A transport answer: make_request's flag and the decoded body.
Response(flag, body) == [flag |-> flag, body |-> body]

\* The targets the server may list, each with its own server-assigned identifier:
\* two names that differ only in case, a third name, and a CLEAN_ROOM twin of each.
TargetRecord(id, name, app) ==
    PyDict({<<"id", PyInt(id)>>, <<"name", PyStr(name)>>, <<"applicationType", PyStr(app)>>})

TargetRecords ==
    {TargetRecord(1, <<"F", "o", "o">>, REGULAR), TargetRecord(2, <<"f", "o", "o">>, REGULAR),
     TargetRecord(3, <<"B", "a", "r">>, REGULAR), TargetRecord(10, <<"F", "o", "o">>, CLEAN_ROOM),
     TargetRecord(11, <<"f", "o", "o">>, CLEAN_ROOM), TargetRecord(12, <<"B", "a", "r">>, CLEAN_ROOM)}

RecordLists(n) == UNION {[1..k -> TargetRecords] : k \in 0..n}

ListBody(recs) == PyDict({<<"recoveryTargets", PyList(recs)>>})

\* Answers the code rejects: transport failure, empty body, null body, no recoveryTargets key.
BadListResponses ==
    {Response(FALSE, EmptyDict), Response(TRUE, EmptyDict), Response(TRUE, PyNone),
     Response(TRUE, PyDict({<<"errorCode", PyInt(1)>>}))}

\* A record without its applicationType: the loop's subscript raises.
BrokenListResponse ==
    Response(TRUE, ListBody(<<PyDict({<<"id", PyInt(1)>>, <<"name", PyStr(<<"F", "o", "o">>)>>})>>))

GoodListResponses(n) == {Response(TRUE, ListBody(recs)) : recs \in RecordLists(n)}

ListResponses == GoodListResponses(MaxRecords) \cup BadListResponses \cup {BrokenListResponse}

\* The loop of _get_recovery_targets over records i..Len(recs), from the dict built so far.
RECURSIVE BuildTargets(_, _, _)
BuildTargets(recs, i, acc) ==
    IF i > Len(recs) THEN acc
    ELSE LET rec == recs[i]
             app == Subscript(rec, "applicationType")
             name == Lower(Subscript(rec, "name"))
             id == StrOf(Subscript(rec, "id"))
         IN  IF IsErr(app) THEN app
             ELSE IF app # PyStr(CLEAN_ROOM)
             THEN IF IsErr(name) THEN name
                  ELSE IF IsErr(id) THEN id
                  ELSE BuildTargets(recs, i + 1, DictSet(acc, name[2], id))
             ELSE BuildTargets(recs, i + 1, acc)

\* _get_recovery_targets as it would be if a malformed body were read as an empty list.
GetRecoveryTargetsLenient(resp) ==
    IF resp.flag
    THEN IF Truthy(resp.body) /\ KeyIn("recoveryTargets", resp.body)
         THEN LET recs == Subscript(resp.body, "recoveryTargets")
              IN  IF recs[1] # "list" THEN TypeError ELSE BuildTargets(recs[2], 1, EmptyDict)
         ELSE EmptyDict
    ELSE ResponseError101

\* _get_recovery_targets: the dict it returns, or the exception it raises.
GetRecoveryTargets(resp) ==
    IF resp.flag
    THEN IF Truthy(resp.body) /\ KeyIn("recoveryTargets", resp.body)
         THEN LET recs == Subscript(resp.body, "recoveryTargets")
              IN  IF recs[1] # "list" THEN TypeError ELSE BuildTargets(recs[2], 1, EmptyDict)
         ELSE ResponseError102
    ELSE ResponseError101

ListRequest == <<"GET", "GET_ALL_RECOVERY_TARGETS">>
DetailRequest(id) == <<"GET", "GET_RECOVERY_TARGET", id>>

\* One exchange with the server, as recorded in lastOp.
Exchange(req, resp) == [req |-> req, resp |-> resp]

(* --------------------------- RecoveryTargets --------------------------- *)

\* What the last operation was, the arguments it was given, what it asked the server
\* and was answered, and what it returned or raised.
Op(name, arg, exchanges, ret) == [op |-> name, arg |-> arg, ex |-> exchanges, ret |-> ret]

\* RecoveryTargets.__init__: a failed load leaves no object behind.
CatalogNew(resp) ==
    LET got == GetRecoveryTargets(resp)
    IN  /\ catalog' = IF IsErr(got) THEN catalog ELSE got
        /\ lastList' = IF IsErr(got) THEN lastList ELSE resp
        /\ lastOp' = Op("catalog_new", <<>>, <<Exchange(ListRequest, resp)>>,
                        IF IsErr(got) THEN got ELSE PyNone)
        /\ UNCHANGED <<target, refreshes>>

\* refresh() as it would be if it merged the new list into the cached dict.
CatalogRefreshAdditive(resp) ==
    LET got == GetRecoveryTargets(resp)
    IN  /\ catalog # Missing
        /\ catalog' = IF IsErr(got) THEN catalog
                      ELSE PyDict(got[2] \cup {p \in catalog[2] : p[1] \notin DictKeys(got)})
        /\ lastList' = IF IsErr(got) THEN lastList ELSE resp
        /\ lastOp' = Op("catalog_refresh", <<>>, <<Exchange(ListRequest, resp)>>,
                        IF IsErr(got) THEN got ELSE PyNone)
        /\ UNCHANGED <<target, refreshes>>

\* RecoveryTargets.refresh
CatalogRefresh(resp) ==
    LET got == GetRecoveryTargets(resp)
    IN  /\ catalog # Missing
        /\ catalog' = IF IsErr(got) THEN catalog ELSE got
        /\ lastList' = IF IsErr(got) THEN lastList ELSE resp
        /\ lastOp' = Op("catalog_refresh", <<>>, <<Exchange(ListRequest, resp)>>,
                        IF IsErr(got) THEN got ELSE PyNone)
        /\ UNCHANGED <<target, refreshes>>

\* has_recovery_target's value on a catalog dict
HasRecoveryTargetValue(targets, name) ==
    IF ~IsInstanceStr(name) THEN InvalidInputError
    ELSE PyAnd(targets, PyBool(KeyIn(Lower(name)[2], targets)))

\* RecoveryTargets.has_recovery_target
HasRecoveryTarget(name) ==
    /\ catalog # Missing
    /\ lastOp' = Op("has_recovery_target", <<name>>, <<>>, HasRecoveryTargetValue(catalog, name))
    /\ UNCHANGED <<catalog, target, lastList, refreshes>>

(* ------------------------ the detail endpoint -------------------------- *)

AMAZON == <<"A", "M", "A", "Z", "O", "N">>
MICROSOFT == <<"M", "I", "C", "R", "O", "S", "O", "F", "T">>
AZURE_RESOURCE_MANAGER ==
    <<"A", "Z", "U", "R", "E", "_", "R", "E", "S", "O", "U", "R", "C", "E", "_",
      "M", "A", "N", "A", "G", "E", "R">>
VMW_BACKUP_LABTEMPLATE ==
    <<"V", "M", "W", "_", "B", "A", "C", "K", "U", "P", "_",
      "L", "A", "B", "T", "E", "M", "P", "L", "A", "T", "E">>
VMW_LIVEMOUNT == <<"V", "M", "W", "_", "L", "I", "V", "E", "M", "O", "U", "N", "T">>
Group == <<"G", "r", "o", "u", "p">>
Auto == <<"A", "u", "t", "o">>
Hours == <<" ", "h", "o", "u", "r", "s">>
Days == <<" ", "d", "a", "y", "s">>

\* The attributes __init__ assigns, with the values it gives them.
InitAttrs ==
    [_recovery_target_properties |-> PyNone,
     _policy_type |-> PyNone, _application_type |-> PyNone,
     _destination_hypervisor |-> PyNone, _access_node |-> PyNone,
     _access_node_client_group |-> PyNone, _users |-> EmptyList,
     _user_groups |-> EmptyList, _vm_prefix |-> EmptyStr, _vm_suffix |-> EmptyStr,
     _destination_host |-> PyNone, _vm_storage_policy |-> PyNone, _datastore |-> PyNone,
     _resource_pool |-> PyNone, _destination_network |-> PyNone,
     _expiration_time |-> PyNone, _failover_ma |-> PyNone, _isolated_network |-> PyNone,
     _no_of_cpu |-> PyNone, _no_of_vm |-> PyNone, _iso_paths |-> EmptyList,
     _resource_group |-> PyNone, _region |-> PyNone, _availability_zone |-> PyNone,
     _storage_account |-> PyNone, _vm_size |-> PyNone, _disk_type |-> PyNone,
     _virtual_network |-> PyNone, _vm_folder |-> PyNone, _security_group |-> PyNone,
     _create_public_ip |-> PyNone, _restore_as_managed_vm |-> PyNone,
     _test_virtual_network |-> PyNone, _test_security_group |-> PyNone,
     _test_vm_size |-> PyNone,
     _volume_type |-> PyNone, _encryption_key |-> PyNone, _iam_role_id |-> PyNone,
     _iam_role_name |-> PyNone, _instance_type |-> PyNone]

\* Attributes that only _get_recovery_target_properties ever assigns.
LateAttrs == [_encryption_key_id |-> Missing, _server_group |-> Missing]

\* The object as __init__ leaves it before its refresh().
NewAttrs(name, id) ==
    [_recovery_target_name |-> name, _recovery_target_id |-> id] @@ InitAttrs @@ LateAttrs

\* The running state of a method body: the attributes so far and the exception, if raised.
Running(attrs) == [a |-> attrs, e |-> NoErr]

\* The assignment as it would be if a list were appended to the list already held.
SetAppending(st, attr, val) ==
    IF IsErr(st.e) THEN st
    ELSE IF IsErr(val) THEN [st EXCEPT !.e = val]
    ELSE IF val[1] = "list" /\ st.a[attr][1] = "list"
    THEN [st EXCEPT !.a[attr] = PyList(st.a[attr][2] \o val[2])]
    ELSE [st EXCEPT !.a[attr] = val]

\* self.<attr> = val: nothing after a raise, and a raise while evaluating val assigns nothing.
Set(st, attr, val) ==
    IF IsErr(st.e) THEN st
    ELSE IF IsErr(val) THEN [st EXCEPT !.e = val]
    ELSE [st EXCEPT !.a[attr] = val]

\* d.get(k1, {}).get(k2, default)
Get2(d, k1, k2, default) == Get(Get(d, k1, EmptyDict), k2, default)
\* d.get(k1, {}).get(k2, {}).get(k3, default)
Get3(d, k1, k2, k3, default) == Get(Get(Get(d, k1, EmptyDict), k2, EmptyDict), k3, default)

\* _set_policy_type as it would be with the codes of AMAZON and MICROSOFT swapped.
SetPolicyTypeSwapped(policy_type) ==
    IF IsErr(policy_type) THEN policy_type
    ELSE IF policy_type = PyStr(AMAZON) THEN PyInt(2)
    ELSE IF policy_type = PyStr(MICROSOFT) THEN PyInt(1)
    ELSE IF policy_type = PyStr(AZURE_RESOURCE_MANAGER) THEN PyInt(7)
    ELSE IF policy_type \in {PyStr(VMW_BACKUP_LABTEMPLATE), PyStr(VMW_LIVEMOUNT)} THEN PyInt(13)
    ELSE PyInt(-1)

\* _set_policy_type as it would be if only VMW_LIVEMOUNT were a VMware policy.
SetPolicyTypeLiveMountOnly(policy_type) ==
    IF IsErr(policy_type) THEN policy_type
    ELSE IF policy_type = PyStr(AMAZON) THEN PyInt(1)
    ELSE IF policy_type = PyStr(MICROSOFT) THEN PyInt(2)
    ELSE IF policy_type = PyStr(AZURE_RESOURCE_MANAGER) THEN PyInt(7)
    ELSE IF policy_type = PyStr(VMW_LIVEMOUNT) THEN PyInt(13)
    ELSE PyInt(-1)

\* _set_policy_type
SetPolicyType(policy_type) ==
    IF IsErr(policy_type) THEN policy_type
    ELSE IF policy_type = PyStr(AMAZON) THEN PyInt(1)
    ELSE IF policy_type = PyStr(MICROSOFT) THEN PyInt(2)
    ELSE IF policy_type = PyStr(AZURE_RESOURCE_MANAGER) THEN PyInt(7)
    ELSE IF policy_type \in {PyStr(VMW_BACKUP_LABTEMPLATE), PyStr(VMW_LIVEMOUNT)} THEN PyInt(13)
    ELSE PyInt(-1)

\* f'{value}{unit}'
Format(value, unit) == PyStr(StrOf(value)[2] \o unit)

\* The expiry_hours / expiry_days block of the AWS, Azure and VMware branches.
\* The expiry block as it would be if daysRetainUntil were looked at first.
SetExpiryDaysFirst(st, expiry_hours, expiry_days) ==
    IF IsErr(st.e) THEN st
    ELSE IF IsErr(expiry_hours) THEN [st EXCEPT !.e = expiry_hours]
    ELSE IF IsErr(expiry_days) THEN [st EXCEPT !.e = expiry_days]
    ELSE IF Truthy(expiry_days) THEN Set(st, "_expiration_time", Format(expiry_days, Days))
    ELSE IF Truthy(expiry_hours) THEN Set(st, "_expiration_time", Format(expiry_hours, Hours))
    ELSE st

SetExpiry(st, expiry_hours, expiry_days) ==
    IF IsErr(st.e) THEN st
    ELSE IF IsErr(expiry_hours) THEN [st EXCEPT !.e = expiry_hours]
    ELSE IF IsErr(expiry_days) THEN [st EXCEPT !.e = expiry_days]
    ELSE IF Truthy(expiry_hours) THEN Set(st, "_expiration_time", Format(expiry_hours, Hours))
    ELSE IF Truthy(expiry_days) THEN Set(st, "_expiration_time", Format(expiry_days, Days))
    ELSE st

SetExpirationTime(st, P) ==
    SetExpiry(st,
              Get3(P, "liveMountOptions", "expirationTime", "minutesRetainUntil", EmptyStr),
              Get3(P, "liveMountOptions", "expirationTime", "daysRetainUntil", EmptyStr))

\* self._access_node_client_group = self._access_node if type == 'Group' else ''
SetAccessNodeClientGroup(st, type) ==
    Set(st, "_access_node_client_group",
        IF IsErr(type) THEN type
        ELSE IF type = PyStr(Group) THEN st.a["_access_node"] ELSE EmptyStr)

\* The fields every policy type gets.
SetCommon(st, P) ==
    LET s1 == Set(st, "_recovery_target_properties", P)
        s2 == Set(s1, "_application_type", Get2(P, "entity", "applicationType", PyNone))
        s3 == Set(s2, "_destination_hypervisor",
                  Get3(P, "entity", "destinationHypervisor", "name", PyNone))
        s4 == Set(s3, "_vm_suffix", Get2(P, "vmDisplayName", "suffix", EmptyStr))
        s5 == Set(s4, "_vm_prefix", Get2(P, "vmDisplayName", "prefix", EmptyStr))
        s6 == Set(s5, "_access_node", Get2(P, "accessNode", "name", EmptyStr))
        s7 == SetAccessNodeClientGroup(s6, Get2(P, "accessNode", "type", EmptyStr))
        s8 == Set(s7, "_users", Get2(P, "securityOptions", "users", EmptyList))
        s9 == Set(s8, "_user_groups", Get2(P, "securityOptions", "userGroups", EmptyList))
    IN  Set(s9, "_policy_type",
            SetPolicyType(Get(Subscript(P, "entity"), "policyType", EmptyStr)))

\* if self._policy_type == 1
SetAws(st, P) ==
    LET s1 == Set(st, "_availability_zone", Get2(P, "cloudDestinationOptions", "availabilityZone", PyNone))
        s2 == Set(s1, "_volume_type", Get2(P, "cloudDestinationOptions", "volumeType", PyNone))
        s3 == Set(s2, "_encryption_key", Get3(P, "cloudDestinationOptions", "encryptionKey", "name", PyNone))
        s4 == Set(s3, "_encryption_key_id", Get3(P, "cloudDestinationOptions", "encryptionKey", "id", PyNone))
        s5 == Set(s4, "_iam_role_name", Get3(P, "destinationOptions", "iamRole", "name", PyNone))
        s6 == Set(s5, "_iam_role_id", Get3(P, "destinationOptions", "iamRole", "id", PyNone))
        s7 == Set(s6, "_destination_network",
                  Get3(P, "networkOptions", "networkCard", "networkDisplayName", PyNone))
        s8 == Set(s7, "_security_group",
                  Get(First(Get2(P, "securityOptions", "securityGroups", PyList(<<EmptyDict>>))),
                      "name", EmptyStr))
        s9 == Set(s8, "_instance_type",
                  First(Get2(P, "cloudDestinationOptions", "instanceTypes", PyList(<<PyStr(Auto)>>))))
        s10 == SetExpirationTime(s9, P)
        s11 == Set(s10, "_test_virtual_network", Get3(P, "networkOptions", "cloudNetwork", "label", PyNone))
        s12 == Set(s11, "_test_security_group",
                   Get(First(Get2(P, "securityOptions", "testSecurityGroups", PyList(<<EmptyDict>>))),
                       "name", EmptyStr))
    IN  Set(s12, "_test_vm_size", Get2(P, "cloudDestinationOptions", "vmInstanceType", PyStr(Auto)))

\* elif self._policy_type == 2
SetHyperV(st, P) ==
    LET s1 == Set(st, "_vm_folder", Get2(P, "destinationOptions", "dataStore", EmptyStr))
        s2 == Set(s1, "_destination_network",
                  First(Get3(P, "networkOptions", "networkCard", "networkNames", PyNone)))
    IN  Set(s2, "_destination_host", Get2(P, "destinationOptions", "destinationHost", EmptyStr))

\* elif self._policy_type == 7
SetAzure(st, P) ==
    LET s1 == Set(st, "_resource_group", Get2(P, "destinationOptions", "destinationHost", EmptyStr))
        s2 == Set(s1, "_region", Get3(P, "cloudDestinationOptions", "region", "name", PyNone))
        s3 == Set(s2, "_availability_zone", Get2(P, "cloudDestinationOptions", "availabilityZone", PyNone))
        s4 == Set(s3, "_storage_account", Get2(P, "destinationOptions", "dataStore", EmptyStr))
        s5 == Set(s4, "_vm_size", Get2(P, "cloudDestinationOptions", "vmInstanceType", PyNone))
        s6 == Set(s5, "_disk_type", Get2(P, "cloudDestinationOptions", "volumeType", PyNone))
        s7 == Set(s6, "_virtual_network",
                  Get3(P, "networkOptions", "networkCard", "networkDisplayName", PyNone))
        s8 == Set(s7, "_security_group",
                  Get(First(Get2(P, "securityOptions", "securityGroups", PyList(<<EmptyDict>>))),
                      "name", EmptyStr))
        s9 == Set(s8, "_create_public_ip", Get2(P, "cloudDestinationOptions", "publicIP", PyNone))
        s10 == Set(s9, "_restore_as_managed_vm",
                   Get2(P, "cloudDestinationOptions", "restoreAsManagedVM", PyNone))
        s11 == SetExpirationTime(s10, P)
        s12 == Set(s11, "_test_virtual_network", Get3(P, "networkOptions", "cloudNetwork", "label", PyNone))
    IN  Set(s12, "_test_vm_size",
            Get(First(Get2(P, "amazonPolicy", "vmInstanceTypes", PyList(<<EmptyDict>>))),
                "vmInstanceTypeName", EmptyStr))

\* A list from its first element and the rest; an exception in either is passed on.
Cons(path, rest) ==
    IF IsErr(path) THEN path
    ELSE IF IsErr(rest) THEN rest
    ELSE PyList(<<path>> \o rest[2])

\* [iso['isoPath'] for iso in isos], from position i on
RECURSIVE IsoPaths(_, _)
IsoPaths(isos, i) ==
    IF i > Len(isos) THEN EmptyList
    ELSE Cons(Subscript(isos[i], "isoPath"), IsoPaths(isos, i + 1))

\* [iso['isoPath'] for iso in isos]
IsoPathsOf(isos) == IF isos[1] # "list" THEN TypeError ELSE IsoPaths(isos[2], 1)

\* elif self._policy_type == 13
SetVMware(st, P) ==
    LET s1 == Set(st, "_destination_host", Get2(P, "destinationOptions", "destinationHost", EmptyStr))
        s2 == Set(s1, "_datastore", Get2(P, "destinationOptions", "dataStore", EmptyStr))
        s3 == Set(s2, "_resource_pool", Get2(P, "destinationOptions", "resourcePoolPath", EmptyStr))
        s4 == Set(s3, "_vm_folder", Get2(P, "destinationOptions", "vmFolder", EmptyStr))
        s5 == Set(s4, "_destination_network",
                  Get3(P, "networkOptions", "networkCard", "destinationNetworks", EmptyList))
        s6 == Set(s5, "_vm_storage_policy", Get(P, "vmStoragePolicyName", PyNone))
        s7 == SetExpirationTime(s6, P)
        s8 == IF Truthy(Get(P, "mediaAgent", EmptyDict))
              THEN Set(s7, "_failover_ma", Subscript(Subscript(P, "mediaAgent"), "clientName"))
              ELSE s7
        s9 == Set(s8, "_isolated_network",
                  Get2(P, "virtualLabOptions", "configureIsolatedNetwork", PyNone))
        s10 == Set(s9, "_no_of_cpu", Get(P, "maxCores", PyNone))
        s11 == Set(s10, "_no_of_vm", Get(P, "maxVMQuota", PyNone))
        s12 == Set(s11, "_iso_paths", IsoPathsOf(Get(P, "isoInfo", EmptyList)))
    IN  IF Truthy(Get(P, "associatedClientGroup", PyNone))
        THEN Set(s12, "_server_group",
                 Subscript(Subscript(P, "associatedClientGroup"), "clientGroupName"))
        ELSE s12

\* The if/elif chain on self._policy_type, after the common fields.
SetByPolicyType(c, P) ==
    IF IsErr(c.e) THEN c
    ELSE IF c.a["_policy_type"] = PyInt(1) THEN SetAws(c, P)
    ELSE IF c.a["_policy_type"] = PyInt(2) THEN SetHyperV(c, P)
    ELSE IF c.a["_policy_type"] = PyInt(7) THEN SetAzure(c, P)
    ELSE IF c.a["_policy_type"] = PyInt(13) THEN SetVMware(c, P)
    ELSE c

\* _get_recovery_target_properties as it would be if it stored the decoded body before
\* looking at it.
GetRecoveryTargetPropertiesEager(attrs, resp) ==
    IF resp.flag
    THEN IF Truthy(resp.body) /\ KeyIn("entity", resp.body)
         THEN SetByPolicyType(SetCommon(Running(attrs), resp.body), resp.body)
         ELSE [a |-> [attrs EXCEPT !["_recovery_target_properties"] = resp.body],
               e |-> ResponseError102]
    ELSE [a |-> attrs, e |-> ResponseError101]

\* _get_recovery_target_properties on an object whose attributes are attrs:
\* the attributes afterwards and the exception raised, if any.
GetRecoveryTargetProperties(attrs, resp) ==
    IF resp.flag
    THEN IF Truthy(resp.body) /\ KeyIn("entity", resp.body)
         THEN SetByPolicyType(SetCommon(Running(attrs), resp.body), resp.body)
         ELSE [a |-> attrs, e |-> ResponseError102]
    ELSE [a |-> attrs, e |-> ResponseError101]

(* --------------------------- RecoveryTarget ---------------------------- *)

\* _get_recovery_target_id: RecoveryTargets(commcell).all_targets[name]
GetRecoveryTargetId(lname, targets) ==
    IF IsErr(targets) THEN targets ELSE Subscript(targets, lname[2])

\* The constructor's outcome once self.refresh() has run.
ConstructLoaded(listEx, found, detailResp, loaded) ==
    [ex |-> listEx \o <<Exchange(DetailRequest(found), detailResp)>>,
     e |-> loaded.e, a |-> loaded.a]

\* The constructor from the identifier on: found is the identifier or the exception
\* raised while looking it up, listEx the exchanges made so far.
ConstructFound(lname, found, listEx, detailResp) ==
    IF IsErr(found) THEN [ex |-> listEx, e |-> found, a |-> InitAttrs]
    ELSE ConstructLoaded(listEx, found, detailResp,
                         GetRecoveryTargetProperties(NewAttrs(lname, found), detailResp))

\* The constructor after self._recovery_target_name = recovery_target_name.lower()
ConstructNamed(lname, id, listResp, detailResp) ==
    IF IsErr(lname) THEN [ex |-> <<>>, e |-> lname, a |-> InitAttrs]
    ELSE IF Truthy(id) THEN ConstructFound(lname, StrOf(id), <<>>, detailResp)
    ELSE ConstructFound(lname, GetRecoveryTargetId(lname, GetRecoveryTargets(listResp)),
                        <<Exchange(ListRequest, listResp)>>, detailResp)

\* RecoveryTarget.__init__(commcell, name, id): the exchanges it makes, the exception
\* it raises (or none) and the attributes of the object it builds.  listResp answers the
\* list request of _get_recovery_target_id, which is made only without an id.
Construct(name, id, listResp, detailResp) ==
    ConstructNamed(Lower(name), id, listResp, detailResp)

Object(attrs) == <<"obj", attrs>>
\* What an operation that hands out the object now held in target returns.
TargetRef == <<"ref", <<>>>>

\* Does the constructor, called with this id, ask the list endpoint?
ListsFor(id, lists) == IF Truthy(id) THEN {Response(FALSE, EmptyDict)} ELSE lists

\* RecoveryTarget(commcell, name, id) called directly.
TargetNew(name, id, listResp, detailResp) ==
    LET c == Construct(name, id, listResp, detailResp)
    IN  /\ target' = IF IsErr(c.e) THEN target ELSE Object(c.a)
        /\ refreshes' = IF IsErr(c.e) THEN refreshes ELSE 0
        /\ lastOp' = Op("target_new", <<name, id>>, c.ex, IF IsErr(c.e) THEN c.e ELSE TargetRef)
        /\ UNCHANGED <<catalog, lastList>>

\* get() as it would be if it subscripted the cached dict without checking membership.
CatalogGetUnchecked(name, listResp, detailResp) ==
    LET lname == Lower(name)
        id == Subscript(catalog, lname[2])
    IN  /\ catalog # Missing
        /\ IF ~IsInstanceStr(name)
           THEN /\ lastOp' = Op("get", <<name>>, <<>>, InvalidInputError)
                /\ UNCHANGED <<target, refreshes>>
           ELSE IF IsErr(id)
           THEN /\ lastOp' = Op("get", <<name>>, <<>>, id)
                /\ UNCHANGED <<target, refreshes>>
           ELSE LET c == Construct(lname, id, listResp, detailResp) IN
                   /\ target' = IF IsErr(c.e) THEN target ELSE Object(c.a)
                   /\ refreshes' = IF IsErr(c.e) THEN refreshes ELSE 0
                   /\ lastOp' = Op("get", <<name>>, c.ex,
                                   IF IsErr(c.e) THEN c.e ELSE TargetRef)
        /\ UNCHANGED <<catalog, lastList>>

\* get() as it would be if it built the RecoveryTarget from the name alone.
CatalogGetByName(name, listResp, detailResp) ==
    LET lname == Lower(name)
        id == PyNone
    IN  /\ catalog # Missing
        /\ IF ~IsInstanceStr(name)
           THEN /\ lastOp' = Op("get", <<name>>, <<>>, InvalidInputError)
                /\ UNCHANGED <<target, refreshes>>
           ELSE IF Truthy(HasRecoveryTargetValue(catalog, lname))
           THEN LET c == Construct(lname, id, listResp, detailResp) IN
                   /\ target' = IF IsErr(c.e) THEN target ELSE Object(c.a)
                   /\ refreshes' = IF IsErr(c.e) THEN refreshes ELSE 0
                   /\ lastOp' = Op("get", <<name>>, c.ex,
                                   IF IsErr(c.e) THEN c.e ELSE TargetRef)
           ELSE /\ lastOp' = Op("get", <<name>>, <<>>, NotFoundError)
                /\ UNCHANGED <<target, refreshes>>
        /\ UNCHANGED <<catalog, lastList>>

\* get() as it would be if a name that is not a string were merely not found.
CatalogGetCoercing(name, listResp, detailResp) ==
    LET lname == Lower(name)
        id == DictLookup(catalog, lname[2])
    IN  /\ catalog # Missing
        /\ IF ~IsInstanceStr(name)
           THEN /\ lastOp' = Op("get", <<name>>, <<>>, NotFoundError)
                /\ UNCHANGED <<target, refreshes>>
           ELSE IF Truthy(HasRecoveryTargetValue(catalog, lname))
           THEN LET c == Construct(lname, id, listResp, detailResp) IN
                   /\ target' = IF IsErr(c.e) THEN target ELSE Object(c.a)
                   /\ refreshes' = IF IsErr(c.e) THEN refreshes ELSE 0
                   /\ lastOp' = Op("get", <<name>>, c.ex,
                                   IF IsErr(c.e) THEN c.e ELSE TargetRef)
           ELSE /\ lastOp' = Op("get", <<name>>, <<>>, NotFoundError)
                /\ UNCHANGED <<target, refreshes>>
        /\ UNCHANGED <<catalog, lastList>>

\* RecoveryTargets.get
CatalogGet(name, listResp, detailResp) ==
    LET lname == Lower(name)
        id == DictLookup(catalog, lname[2])
    IN  /\ catalog # Missing
        /\ IF ~IsInstanceStr(name)
           THEN /\ lastOp' = Op("get", <<name>>, <<>>, InvalidInputError)
                /\ UNCHANGED <<target, refreshes>>
           ELSE IF Truthy(HasRecoveryTargetValue(catalog, lname))
           THEN LET c == Construct(lname, id, listResp, detailResp) IN
                   /\ target' = IF IsErr(c.e) THEN target ELSE Object(c.a)
                   /\ refreshes' = IF IsErr(c.e) THEN refreshes ELSE 0
                   /\ lastOp' = Op("get", <<name>>, c.ex,
                                   IF IsErr(c.e) THEN c.e ELSE TargetRef)
           ELSE /\ lastOp' = Op("get", <<name>>, <<>>, NotFoundError)
                /\ UNCHANGED <<target, refreshes>>
        /\ UNCHANGED <<catalog, lastList>>

\* The list answers get() can consume for this name: one is read only if the
\* constructor is handed a falsy id.
GetListsFor(name, lists) ==
    IF IsInstanceStr(name) /\ KeyIn(Lower(name)[2], catalog)
    THEN ListsFor(DictLookup(catalog, Lower(name)[2]), lists)
    ELSE {Response(FALSE, EmptyDict)}

\* RecoveryTarget.refresh
TargetRefresh(detailResp) ==
    /\ target # Missing
    /\ refreshes < MaxRefreshes
    /\ LET r == GetRecoveryTargetProperties(target[2], detailResp) IN
          /\ refreshes' = refreshes + 1
          /\ target' = Object(r.a)
          /\ lastOp' = Op("target_refresh", <<>>,
                          <<Exchange(DetailRequest(target[2]["_recovery_target_id"]), detailResp)>>,
                          r.e)
          /\ UNCHANGED <<catalog, lastList>>

\* The attribute each plain accessor returns.
AccessorAttr ==
    [recovery_target_id |-> "_recovery_target_id", recovery_target_name |-> "_recovery_target_name",
     policy_type |-> "_policy_type", application_type |-> "_application_type",
     destination_hypervisor |-> "_destination_hypervisor", access_node |-> "_access_node",
     access_node_client_group |-> "_access_node_client_group",
     vm_prefix |-> "_vm_prefix", vm_suffix |-> "_vm_suffix",
     destination_host |-> "_destination_host", vm_storage_policy |-> "_vm_storage_policy",
     datastore |-> "_datastore", resource_pool |-> "_resource_pool", vm_folder |-> "_vm_folder",
     destination_network |-> "_destination_network", expiration_time |-> "_expiration_time",
     failover_ma |-> "_failover_ma", isolated_network |-> "_isolated_network",
     iso_path |-> "_iso_paths", server_group |-> "_server_group", no_of_cpu |-> "_no_of_cpu",
     no_of_vm |-> "_no_of_vm", resource_group |-> "_resource_group", region |-> "_region",
     availability_zone |-> "_availability_zone", storage_account |-> "_storage_account",
     vm_size |-> "_vm_size", disk_type |-> "_disk_type", virtual_network |-> "_virtual_network",
     security_group |-> "_security_group", create_public_ip |-> "_create_public_ip",
     restore_as_managed_vm |-> "_restore_as_managed_vm",
     test_virtual_network |-> "_test_virtual_network",
     test_security_group |-> "_test_security_group", test_vm_size |-> "_test_vm_size",
     volume_type |-> "_volume_type", encryption_key |-> "_encryption_key",
     iam_role_id |-> "_iam_role_id", iam_role_name |-> "_iam_role_name",
     instance_type |-> "_instance_type"]

Accessors == DOMAIN AccessorAttr \cup {"security_user_names"}

\* [user['userName'] for user in users], from position i on
RECURSIVE UserNames(_, _)
UserNames(users, i) ==
    IF i > Len(users) THEN EmptyList
    ELSE LET user == Subscript(users[i], "userName")
             rest == UserNames(users, i + 1)
         IN  IF IsErr(user) THEN user
             ELSE IF IsErr(rest) THEN rest
             ELSE PyList(<<user>> \o rest[2])

\* The value a property of the object returns, or the exception reading it raises.
ReadValue(attrs, accessor) ==
    IF accessor = "security_user_names"
    THEN IF attrs["_users"][1] # "list" THEN TypeError ELSE UserNames(attrs["_users"][2], 1)
    ELSE IF attrs[AccessorAttr[accessor]] = Missing THEN AttributeError
    ELSE attrs[AccessorAttr[accessor]]

\* Reading one property of the RecoveryTarget.
ReadAccessor(accessor) ==
    /\ target # Missing
    /\ lastOp' = Op("read", <<<<"attr", accessor>>>>, <<>>, ReadValue(target[2], accessor))
    /\ UNCHANGED <<catalog, target, lastList, refreshes>>

(* ----------------------------- inputs ---------------------------------- *)

NameInputs ==
    {PyStr(<<"F", "o", "o">>), PyStr(<<"f", "o", "o">>), PyStr(<<"F", "O", "O">>),
     PyStr(<<"b", "a", "r">>), PyStr(<<"B", "a", "z">>), PyInt(7), PyNone}

\* The name the lone RecoveryTarget is constructed for.
LoneNames == {PyStr(<<"F", "o", "o">>)}

\* Names a RecoveryTarget is constructed for.
TargetNames == {PyStr(<<"F", "o", "o">>), PyStr(<<"B", "a", "z">>)}

\* Identifiers handed to the constructor: an int, a string, and the falsy ones.
GivenIds == {PyInt(5), PyStr(<<"1", "2">>)}
AbsentIds == {PyNone}

S1(a) == PyStr(<<a>>)
S2(a, b) == PyStr(<<a, b>>)
Entity(policy) ==
    <<"entity", PyDict({<<"applicationType", S2("V", "S")>>, <<"policyType", PyStr(policy)>>,
                        <<"destinationHypervisor", PyDict({<<"name", S2("h", "v")>>})>>})>>
BareEntity(policy) == <<"entity", PyDict({<<"policyType", PyStr(policy)>>})>>
Shared ==
    {<<"vmDisplayName", PyDict({<<"prefix", S1("p")>>, <<"suffix", S1("s")>>})>>,
     <<"accessNode", PyDict({<<"name", S2("a", "n")>>, <<"type", PyStr(Group)>>})>>}
Expiry(pairs) == <<"liveMountOptions", PyDict({<<"expirationTime", PyDict(pairs)>>})>>

AwsFull ==
    PyDict({Entity(AMAZON),
            <<"securityOptions",
              PyDict({<<"users", PyList(<<PyDict({<<"userName", S2("u", "1")>>})>>)>>,
                      <<"userGroups", PyList(<<PyDict({<<"userGroupName", S2("g", "1")>>})>>)>>,
                      <<"securityGroups", PyList(<<PyDict({<<"name", S2("s", "g")>>})>>)>>,
                      <<"testSecurityGroups", PyList(<<PyDict({<<"name", S2("t", "g")>>})>>)>>})>>,
            <<"cloudDestinationOptions",
              PyDict({<<"availabilityZone", S2("z", "1")>>, <<"volumeType", S2("g", "p")>>,
                      <<"encryptionKey", PyDict({<<"name", S2("k", "n")>>, <<"id", S2("k", "i")>>})>>,
                      <<"instanceTypes", PyList(<<S2("t", "2")>>)>>,
                      <<"vmInstanceType", S2("t", "3")>>})>>,
            <<"destinationOptions",
              PyDict({<<"iamRole", PyDict({<<"name", S2("r", "n")>>, <<"id", S2("r", "i")>>})>>})>>,
            <<"networkOptions",
              PyDict({<<"networkCard", PyDict({<<"networkDisplayName", S2("n", "d")>>})>>,
                      <<"cloudNetwork", PyDict({<<"label", S2("c", "l")>>})>>})>>,
            Expiry({<<"minutesRetainUntil", PyInt(4)>>, <<"daysRetainUntil", PyInt(3)>>})}
           \cup Shared)
AwsSparse == PyDict({BareEntity(AMAZON)})
AwsNoSecurityGroups ==
    PyDict({BareEntity(AMAZON), <<"securityOptions", PyDict({<<"securityGroups", EmptyList>>})>>})
AwsNoInstanceTypes ==
    PyDict({BareEntity(AMAZON), <<"cloudDestinationOptions", PyDict({<<"instanceTypes", EmptyList>>})>>})
HyperVFull ==
    PyDict({Entity(MICROSOFT),
            <<"destinationOptions",
              PyDict({<<"dataStore", S2("d", "s")>>, <<"destinationHost", S2("d", "h")>>})>>,
            <<"networkOptions",
              PyDict({<<"networkCard", PyDict({<<"networkNames", PyList(<<S2("n", "1")>>)>>})>>})>>})
HyperVNoNetwork ==
    PyDict({BareEntity(MICROSOFT),
            <<"destinationOptions", PyDict({<<"destinationHost", S2("d", "h")>>})>>})
AzureFull ==
    PyDict({Entity(AZURE_RESOURCE_MANAGER),
            <<"destinationOptions",
              PyDict({<<"dataStore", S2("s", "a")>>, <<"destinationHost", S2("r", "g")>>})>>,
            <<"cloudDestinationOptions",
              PyDict({<<"region", PyDict({<<"name", S2("e", "u")>>})>>,
                      <<"availabilityZone", S2("z", "2")>>, <<"vmInstanceType", S2("d", "2")>>,
                      <<"volumeType", S2("s", "d")>>, <<"publicIP", PyBool(TRUE)>>,
                      <<"restoreAsManagedVM", PyBool(FALSE)>>})>>,
            <<"networkOptions",
              PyDict({<<"networkCard", PyDict({<<"networkDisplayName", S2("v", "n")>>})>>,
                      <<"cloudNetwork", PyDict({<<"label", S2("t", "n")>>})>>})>>,
            <<"securityOptions",
              PyDict({<<"securityGroups", PyList(<<PyDict({<<"name", S2("n", "s")>>})>>)>>})>>,
            <<"amazonPolicy",
              PyDict({<<"vmInstanceTypes", PyList(<<PyDict({<<"vmInstanceTypeName", S2("b", "1")>>})>>)>>})>>,
            Expiry({<<"daysRetainUntil", PyInt(3)>>})})
VMwareFull ==
    PyDict({Entity(VMW_LIVEMOUNT),
            <<"destinationOptions",
              PyDict({<<"destinationHost", S2("e", "x")>>, <<"dataStore", S2("d", "1")>>,
                      <<"resourcePoolPath", S2("r", "p")>>, <<"vmFolder", S2("v", "f")>>})>>,
            <<"networkOptions",
              PyDict({<<"networkCard",
                        PyDict({<<"destinationNetworks", PyList(<<S2("n", "1")>>)>>})>>})>>,
            <<"vmStoragePolicyName", S2("s", "p")>>,
            <<"mediaAgent", PyDict({<<"clientName", S2("m", "a")>>})>>,
            <<"virtualLabOptions", PyDict({<<"configureIsolatedNetwork", PyBool(TRUE)>>})>>,
            <<"maxCores", PyInt(2)>>, <<"maxVMQuota", PyInt(5)>>,
            <<"isoInfo", PyList(<<PyDict({<<"isoPath", S2("i", "1")>>})>>)>>,
            <<"associatedClientGroup", PyDict({<<"clientGroupName", S2("c", "g")>>})>>,
            Expiry({<<"daysRetainUntil", PyInt(2)>>})}
           \cup Shared)
VMwareSparse == PyDict({BareEntity(VMW_BACKUP_LABTEMPLATE)})
OtherPolicy == PyDict({BareEntity(<<"G", "C", "P">>)} \cup Shared)
NoPolicy == PyDict({<<"entity", EmptyDict>>})

DetailDocs ==
    {AwsFull, AwsSparse, AwsNoSecurityGroups, AwsNoInstanceTypes, HyperVFull, HyperVNoNetwork,
     AzureFull, VMwareFull, VMwareSparse, OtherPolicy, NoPolicy}

\* Answers the code rejects: transport failure, empty body, null body, no entity key.
BadDetailResponses ==
    {Response(FALSE, EmptyDict), Response(TRUE, EmptyDict), Response(TRUE, PyNone),
     Response(TRUE, PyDict({<<"errorCode", PyInt(1)>>}))}

DetailResponses == {Response(TRUE, d) : d \in DetailDocs} \cup BadDetailResponses

\* The answers used where the catalog and the target act together.
FewListResponses ==
    GoodListResponses(1)
    \cup {Response(FALSE, EmptyDict), Response(TRUE, EmptyDict), BrokenListResponse}
FewDetailResponses ==
    {Response(TRUE, AwsFull), Response(TRUE, HyperVNoNetwork), Response(FALSE, EmptyDict),
     Response(TRUE, EmptyDict), Response(TRUE, PyDict({<<"errorCode", PyInt(1)>>}))}

\* Detail documents that differ in policyType and in liveMountOptions.expirationTime:
\* each retention value is absent (Missing), null, zero, or a number; minutes may also
\* arrive as a string.  Every document carries networkNames, which the Hyper-V branch reads.
ExpiryPolicies ==
    {AMAZON, MICROSOFT, AZURE_RESOURCE_MANAGER, VMW_BACKUP_LABTEMPLATE, VMW_LIVEMOUNT,
     <<"G", "C", "P">>}
MinutesValues == {Missing, PyNone, PyInt(0), PyInt(4), S2("9", "0")}
DaysValues == {Missing, PyInt(0), PyInt(3)}
ExpiryDoc(policy, minutes, days) ==
    PyDict({BareEntity(policy),
            <<"networkOptions",
              PyDict({<<"networkCard", PyDict({<<"networkNames", PyList(<<S2("n", "1")>>)>>})>>})>>,
            Expiry({<<"minutesRetainUntil", minutes>> : m \in {minutes} \ {Missing}}
                   \cup {<<"daysRetainUntil", days>> : d \in {days} \ {Missing}})})
ExpiryDocs ==
    {ExpiryDoc(policy, minutes, days) :
        policy \in ExpiryPolicies, minutes \in MinutesValues, days \in DaysValues}
    \cup {PyDict({BareEntity(policy)}) : policy \in {AMAZON, AZURE_RESOURCE_MANAGER, VMW_LIVEMOUNT}}
ExpiryResponses == {Response(TRUE, d) : d \in ExpiryDocs}
ExpiryAccessors == {"expiration_time", "policy_type"}

\* Detail documents that differ in entity.policyType alone: the five known values, an
\* unknown one, a known one in lower case, the empty string, null, the numbers the code
\* maps to, and no policyType at all (Missing).
PolicyValues ==
    {PyStr(AMAZON), PyStr(MICROSOFT), PyStr(AZURE_RESOURCE_MANAGER), PyStr(VMW_BACKUP_LABTEMPLATE),
     PyStr(VMW_LIVEMOUNT), PyStr(<<"G", "C", "P">>), PyStr(<<"a", "m", "a", "z", "o", "n">>),
     EmptyStr, PyNone, PyInt(1), PyInt(13), Missing}
PolicyDoc(policy) ==
    PyDict({<<"entity", PyDict({<<"policyType", policy>> : p \in {policy} \ {Missing}})>>,
            <<"networkOptions",
              PyDict({<<"networkCard", PyDict({<<"networkNames", PyList(<<S2("n", "1")>>)>>})>>})>>})
PolicyResponses == {Response(TRUE, PolicyDoc(policy)) : policy \in PolicyValues}

(* ------------------------- specifications ------------------------------ *)

Init ==
    /\ catalog = Missing
    /\ target = Missing
    /\ lastList = Missing
    /\ lastOp = Op("none", <<>>, <<>>, PyNone)
    /\ refreshes = 0

\* The catalog on its own.
NextCatalog ==
    \/ \E resp \in ListResponses : CatalogNew(resp)
    \/ \E resp \in ListResponses : CatalogRefresh(resp)
    \/ \E name \in NameInputs : HasRecoveryTarget(name)

SpecCatalog == Init /\ [][NextCatalog]_vars

\* One target, built with a known identifier and refreshed.
NextTarget ==
    \/ \E name \in LoneNames, id \in GivenIds, resp \in DetailResponses :
          TargetNew(name, id, Response(FALSE, EmptyDict), resp)
    \/ \E resp \in DetailResponses : TargetRefresh(resp)

SpecTarget == Init /\ [][NextTarget]_vars

\* One target, built with a known identifier and read.
NextRead ==
    \/ \E name \in TargetNames, id \in GivenIds, resp \in DetailResponses :
          TargetNew(name, id, Response(FALSE, EmptyDict), resp)
    \/ \E accessor \in Accessors : ReadAccessor(accessor)

SpecRead == Init /\ [][NextRead]_vars

\* One target, built from documents that differ in their retention values, and read.
NextExpiry ==
    \/ \E name \in LoneNames, id \in GivenIds, resp \in ExpiryResponses :
          TargetNew(name, id, Response(FALSE, EmptyDict), resp)
    \/ \E accessor \in ExpiryAccessors : ReadAccessor(accessor)

SpecExpiry == Init /\ [][NextExpiry]_vars

\* The document a refresh is answered with when the server's copy has not changed:
\* the one the held RecoveryTarget last fetched.
Unchanged(resp) == resp.flag /\ resp.body = target[2]["_recovery_target_properties"]

\* One target, built and then refreshed while its document stays the same.
NextReload ==
    \/ \E name \in LoneNames, id \in GivenIds, resp \in DetailResponses :
          TargetNew(name, id, Response(FALSE, EmptyDict), resp)
    \/ \E resp \in DetailResponses :
          /\ target # Missing
          /\ Unchanged(resp)
          /\ TargetRefresh(resp)

SpecReload == Init /\ [][NextReload]_vars

\* One target, built and refreshed from documents that differ in their policyType.
NextPolicy ==
    \/ \E name \in TargetNames, id \in GivenIds, resp \in PolicyResponses :
          TargetNew(name, id, Response(FALSE, EmptyDict), resp)
    \/ \E resp \in PolicyResponses : TargetRefresh(resp)

SpecPolicy == Init /\ [][NextPolicy]_vars

\* The catalog and the targets built from it or beside it.
Next ==
    \/ \E resp \in FewListResponses : CatalogNew(resp)
    \/ \E resp \in FewListResponses : CatalogRefresh(resp)
    \/ \E name \in NameInputs : HasRecoveryTarget(name)
    \/ \E name \in NameInputs, detailResp \in FewDetailResponses :
          \E listResp \in GetListsFor(name, FewListResponses) :
             CatalogGet(name, listResp, detailResp)
    \/ \E name \in TargetNames, id \in AbsentIds, detailResp \in FewDetailResponses :
          \E listResp \in ListsFor(id, FewListResponses) :
             TargetNew(name, id, listResp, detailResp)
    \/ \E resp \in FewDetailResponses : TargetRefresh(resp)

Spec == Init /\ [][Next]_vars

(* ------------------------------ claims --------------------------------- *)

\* The records of the list answer the catalog last loaded, and what each contributes.
ListedRecords == Subscript(lastList.body, "recoveryTargets")[2]
IsListed(rec) == Subscript(rec, "applicationType") # PyStr(CLEAN_ROOM)
ListedKey(rec) == Lower(Subscript(rec, "name"))[2]
ListedId(rec) == StrOf(Subscript(rec, "id"))
ListedPair(rec) == <<ListedKey(rec), ListedId(rec)>>

\* C1 as stated: the cached mapping holds every record that is not CLEAN_ROOM under its
\* lower-cased name with its id as a string, and holds nothing else (no CLEAN_ROOM record,
\* no entry of an earlier answer).
C1_AsStated ==
    catalog # Missing =>
        /\ catalog[1] = "dict"
        /\ \A i \in DOMAIN ListedRecords :
              IsListed(ListedRecords[i]) => ListedPair(ListedRecords[i]) \in catalog[2]
        /\ \A p \in catalog[2] :
              \E i \in DOMAIN ListedRecords :
                 IsListed(ListedRecords[i]) /\ p = ListedPair(ListedRecords[i])

\* C1 (amended): after any sequence of load()/refresh() calls the cached mapping is exactly
\* the one built from the most recent successful list answer: its keys are the lower-cased
\* names of the records that are not CLEAN_ROOM, each key maps to the string id of the last
\* such record with that lower-cased name, and nothing of an earlier answer survives.
C1_LastRecordWins ==
    catalog # Missing =>
        /\ catalog[1] = "dict"
        /\ catalog[2] =
              {ListedPair(ListedRecords[i]) :
                 i \in {k \in DOMAIN ListedRecords :
                          /\ IsListed(ListedRecords[k])
                          /\ \A j \in DOMAIN ListedRecords :
                                (j > k /\ IsListed(ListedRecords[j]))
                                   => ListedKey(ListedRecords[j]) # ListedKey(ListedRecords[k])}}

\* A refresh has replaced the mapping by that of an answer listing "Bar" (id 3) and a
\* CLEAN_ROOM record: "bar" -> "3" is all that is cached.
C1_Witness ==
    /\ lastOp.op = "catalog_refresh"
    /\ ~IsErr(lastOp.ret)
    /\ Len(ListedRecords) = 2
    /\ \E i \in DOMAIN ListedRecords : ~IsListed(ListedRecords[i])
    /\ catalog = PyDict({<<(<<"b", "a", "r">>), PyStr(<<"3">>)>>})

\* Was the last operation get(name) with a string whose lower-cased form is / is not cached?
GetOfAbsent(op, targets) ==
    /\ op.op = "get"
    /\ IsInstanceStr(op.arg[1])
    /\ Lower(op.arg[1])[2] \notin DictKeys(targets)
GetOfPresent(op, targets) ==
    /\ op.op = "get"
    /\ IsInstanceStr(op.arg[1])
    /\ Lower(op.arg[1])[2] \in DictKeys(targets)

\* C2: get(name) with a string name whose lower-cased form is not a key of the cached
\* mapping raises SDKException('RecoveryTarget', '102'), issues no request and leaves the
\* held RecoveryTarget (and the catalog) as they were: nothing is constructed or returned.
C2_GetAbsentNotFound ==
    [][GetOfAbsent(lastOp', catalog) =>
          /\ lastOp'.ret = NotFoundError
          /\ lastOp'.ex = <<>>
          /\ target' = target
          /\ catalog' = catalog]_vars

\* get("Baz") on a loaded, non-empty catalog without "baz", while a RecoveryTarget is held.
C2_Witness ==
    /\ GetOfAbsent(lastOp, catalog)
    /\ lastOp.arg = <<PyStr(<<"B", "a", "z">>)>>
    /\ catalog[2] # {}
    /\ target # Missing
    /\ lastOp.ret = NotFoundError

\* C3 as stated: has_recovery_target(name) on a string returns the boolean True exactly
\* when the lower-cased name is a key of the cached mapping and the boolean False otherwise.
C3_ReturnsBoolean ==
    (lastOp.op = "has_recovery_target" /\ IsInstanceStr(lastOp.arg[1])) =>
        lastOp.ret = PyBool(Lower(lastOp.arg[1])[2] \in DictKeys(catalog))

\* The detail answer the last operation received, if it asked for one.
DetailExchanges(op) ==
    {i \in DOMAIN op.ex : op.ex[i].req[2] = "GET_RECOVERY_TARGET"}
ListExchanges(op) ==
    {i \in DOMAIN op.ex : op.ex[i].req[2] = "GET_ALL_RECOVERY_TARGETS"}

\* C4 as stated: after a successful refresh() the attributes are exactly those a fresh
\* construction (same name, same id) from the fetched document would have.
C4_RefreshEqualsFresh ==
    (lastOp.op = "target_refresh" /\ ~IsErr(lastOp.ret)) =>
        target[2] =
            GetRecoveryTargetProperties(
                NewAttrs(target[2]["_recovery_target_name"], target[2]["_recovery_target_id"]),
                lastOp.ex[1].resp).a

\* The field groups of the spec's section 4.2, by numeric PolicyType.
AwsGroup ==
    {"_availability_zone", "_volume_type", "_encryption_key", "_encryption_key_id",
     "_iam_role_name", "_iam_role_id", "_destination_network", "_security_group",
     "_instance_type", "_expiration_time", "_test_virtual_network", "_test_security_group",
     "_test_vm_size"}
HyperVGroup == {"_vm_folder", "_destination_network", "_destination_host"}
AzureGroup ==
    {"_resource_group", "_region", "_availability_zone", "_storage_account", "_vm_size",
     "_disk_type", "_virtual_network", "_security_group", "_create_public_ip",
     "_restore_as_managed_vm", "_expiration_time", "_test_virtual_network", "_test_vm_size"}
VMwareGroup ==
    {"_destination_host", "_datastore", "_resource_pool", "_vm_folder", "_destination_network",
     "_vm_storage_policy", "_expiration_time", "_failover_ma", "_isolated_network",
     "_no_of_cpu", "_no_of_vm", "_iso_paths", "_server_group"}
VariantAttrs == AwsGroup \cup HyperVGroup \cup AzureGroup \cup VMwareGroup
GroupOf(code) ==
    CASE code = PyInt(1) -> AwsGroup
      [] code = PyInt(2) -> HyperVGroup
      [] code = PyInt(7) -> AzureGroup
      [] code = PyInt(13) -> VMwareGroup
      [] OTHER -> {}
\* The spec's table from entity.policyType to the numeric code.
CodeOf(doc) ==
    LET policy == Get2(doc, "entity", "policyType", EmptyStr)
    IN  CASE policy = PyStr(AMAZON) -> PyInt(1)
          [] policy = PyStr(MICROSOFT) -> PyInt(2)
          [] policy = PyStr(AZURE_RESOURCE_MANAGER) -> PyInt(7)
          [] policy = PyStr(VMW_BACKUP_LABTEMPLATE) -> PyInt(13)
          [] policy = PyStr(VMW_LIVEMOUNT) -> PyInt(13)
          [] OTHER -> PyInt(-1)
Unset(attr) == (InitAttrs @@ LateAttrs)[attr]

\* C5: a RecoveryTarget just constructed from a detail document has the PolicyType its
\* entity.policyType selects, and every variant-specific attribute outside that
\* PolicyType's group is as __init__ left it; with an unrecognized policyType the
\* PolicyType is -1 and every variant-specific attribute is as __init__ left it.
C5_OnlySelectedGroup ==
    (lastOp.op = "target_new" /\ ~IsErr(lastOp.ret)) =>
        LET doc == lastOp.ex[Len(lastOp.ex)].resp.body
        IN  /\ target[2]["_policy_type"] = CodeOf(doc)
            /\ \A attr \in VariantAttrs \ GroupOf(CodeOf(doc)) : target[2][attr] = Unset(attr)

\* A RecoveryTarget built from the full AMAZON document: its AWS fields are filled, the
\* Hyper-V, Azure and VMware ones are not.
C5_Witness ==
    /\ lastOp.op = "target_new"
    /\ ~IsErr(lastOp.ret)
    /\ target[2]["_recovery_target_properties"] = AwsFull
    /\ target[2]["_policy_type"] = PyInt(1)
    /\ target[2]["_security_group"] = S2("s", "g")
    /\ target[2]["_expiration_time"] = PyStr(<<"4">> \o Hours)
    /\ target[2]["_vm_folder"] = PyNone
    /\ target[2]["_resource_group"] = PyNone
    /\ target[2]["_iso_paths"] = EmptyList

\* C6 as stated: reading the accessor of an attribute outside the group of the target's
\* PolicyType returns the attribute's unset default (None, or the empty list) and raises
\* nothing.
C6_UnpopulatedReadsDefault ==
    (/\ lastOp.op = "read"
     /\ lastOp.arg[1][2] \in DOMAIN AccessorAttr
     /\ AccessorAttr[lastOp.arg[1][2]] \in VariantAttrs \ GroupOf(target[2]["_policy_type"])) =>
        /\ ~IsErr(lastOp.ret)
        /\ lastOp.ret = (IF AccessorAttr[lastOp.arg[1][2]] = "_iso_paths" THEN EmptyList
                                                                         ELSE PyNone)

\* C7 as stated: a detail load whose answer is successful and carries the key entity
\* raises nothing.
C7_EntityNeverFails ==
    \A i \in DetailExchanges(lastOp) :
        (lastOp.ex[i].resp.flag /\ KeyIn("entity", lastOp.ex[i].resp.body)) => ~IsErr(lastOp.ret)

\* C8 as stated: constructing a RecoveryTarget without an id, for a name the freshly
\* loaded list does not hold, raises SDKException('RecoveryTarget', '102') after the list
\* request alone.
C8_AbsentNameNotFound ==
    (/\ lastOp.op = "target_new"
     /\ IsInstanceStr(lastOp.arg[1])
     /\ ~Truthy(lastOp.arg[2])
     /\ Len(lastOp.ex) >= 1
     /\ ~IsErr(GetRecoveryTargets(lastOp.ex[1].resp))
     /\ Lower(lastOp.arg[1])[2] \notin DictKeys(GetRecoveryTargets(lastOp.ex[1].resp))) =>
        /\ lastOp.ret = NotFoundError
        /\ DetailExchanges(lastOp) = {}

\* Is this the answer the spec says must fail with ResponseError: transport failure, or
\* an empty body, or a body without the endpoint's top-level key?
Rejected(ex) ==
    \/ ~ex.resp.flag
    \/ ~Truthy(ex.resp.body)
    \/ ~KeyIn(IF ex.req = ListRequest THEN "recoveryTargets" ELSE "entity", ex.resp.body)

\* C9: an operation that fetches the list or a detail document ends with an
\* SDKException of module 'Response' exactly when an answer it received was unsuccessful,
\* empty, or without recoveryTargets (list) / entity (detail); the exception reaches the
\* caller, and a constructor that raises it leaves no new object.
C9_ResponseErrorExactly ==
    [][(lastOp'.ex # <<>>) =>
          /\ IsResponseError(lastOp'.ret) <=> (\E i \in DOMAIN lastOp'.ex : Rejected(lastOp'.ex[i]))
          /\ \A i \in DOMAIN lastOp'.ex :
                Rejected(lastOp'.ex[i]) =>
                   /\ i = Len(lastOp'.ex)
                   /\ lastOp'.ret = (IF lastOp'.ex[i].resp.flag THEN ResponseError102
                                                              ELSE ResponseError101)
          /\ (IsResponseError(lastOp'.ret) /\ lastOp'.op \in {"target_new", "get", "catalog_new"})
                => (target' = target /\ catalog' = catalog)]_vars

\* A construction without an id whose list answer was accepted and whose detail answer
\* had no entity key: it raised the ResponseError of code 102.
C9_Witness ==
    /\ lastOp.op = "target_new"
    /\ Len(lastOp.ex) = 2
    /\ ~Rejected(lastOp.ex[1])
    /\ lastOp.ex[2].resp = Response(TRUE, PyDict({<<"errorCode", PyInt(1)>>}))
    /\ lastOp.ret = ResponseError102

\* C10: get(name) for a name in the cached mapping issues exactly one request, the detail
\* GET for the cached identifier of that name, and no list request; the catalog is left as
\* it was, and the RecoveryTarget returned carries the cached identifier.
C10_GetUsesCachedId ==
    [][GetOfPresent(lastOp', catalog) =>
          LET id == DictLookup(catalog, Lower(lastOp'.arg[1])[2])
          IN  /\ Len(lastOp'.ex) = 1
              /\ lastOp'.ex[1].req = DetailRequest(id)
              /\ ListExchanges(lastOp') = {}
              /\ catalog' = catalog
              /\ lastList' = lastList
              /\ ~IsErr(lastOp'.ret) =>
                    /\ lastOp'.ret = TargetRef
                    /\ target'[2]["_recovery_target_id"] = id
                    /\ target'[2]["_recovery_target_name"] = Lower(lastOp'.arg[1])]_vars

\* get("FOO") on a catalog holding "foo" -> "2" returned a RecoveryTarget with id "2".
C10_Witness ==
    /\ GetOfPresent(lastOp, catalog)
    /\ lastOp.arg = <<PyStr(<<"F", "O", "O">>)>>
    /\ lastOp.ret = TargetRef
    /\ DictLookup(catalog, <<"f", "o", "o">>) = PyStr(<<"2">>)
    /\ target[2]["_recovery_target_id"] = PyStr(<<"2">>)
    /\ lastOp.ex = <<Exchange(DetailRequest(PyStr(<<"2">>)), Response(TRUE, AwsFull))>>

\* The retention value of a detail document, or the empty string the code defaults to.
Retain(doc, key) == Get3(doc, "liveMountOptions", "expirationTime", key, EmptyStr)
\* The expiration time the spec gives a target freshly loaded from doc.
Rendered(doc) ==
    IF CodeOf(doc) \notin {PyInt(1), PyInt(7), PyInt(13)} THEN PyNone
    ELSE IF Truthy(Retain(doc, "minutesRetainUntil"))
    THEN PyStr(StrOf(Retain(doc, "minutesRetainUntil"))[2] \o <<" ", "h", "o", "u", "r", "s">>)
    ELSE IF Truthy(Retain(doc, "daysRetainUntil"))
    THEN PyStr(StrOf(Retain(doc, "daysRetainUntil"))[2] \o <<" ", "d", "a", "y", "s">>)
    ELSE PyNone

\* C11: the expiration time of a freshly loaded RecoveryTarget is "<minutes> hours" when
\* the document of an AWS, Azure or VMware target carries a truthy minutesRetainUntil,
\* whatever daysRetainUntil is; otherwise "<days> days" when daysRetainUntil is truthy;
\* otherwise None.  It is None for a Hyper-V target and for an unrecognized policyType.
\* The expiration_time accessor returns that value.
C11_ExpirationRendering ==
    /\ target # Missing =>
          target[2]["_expiration_time"] = Rendered(target[2]["_recovery_target_properties"])
    /\ (lastOp.op = "read" /\ lastOp.arg[1][2] = "expiration_time") =>
          lastOp.ret = Rendered(target[2]["_recovery_target_properties"])

\* The expiration_time of a target loaded from an AMAZON document with both retention
\* values has been read: hours won.
C11_Witness ==
    /\ lastOp.op = "read"
    /\ lastOp.arg[1][2] = "expiration_time"
    /\ target[2]["_recovery_target_properties"] = ExpiryDoc(AMAZON, PyInt(4), PyInt(3))
    /\ lastOp.ret = PyStr(<<"4", " ", "h", "o", "u", "r", "s">>)

\* C12: a refresh() answered with the very document the RecoveryTarget was built from
\* raises nothing and leaves every attribute as it was, for each policy type.
C12_ReloadIdempotent ==
    [][(/\ lastOp'.op = "target_refresh"
        /\ lastOp.op = "target_new"
        /\ ~IsErr(lastOp.ret)
        /\ lastOp'.ex[1].resp = lastOp.ex[Len(lastOp.ex)].resp) =>
          /\ ~IsErr(lastOp'.ret)
          /\ target' = target
          /\ target'[2] =
                GetRecoveryTargetProperties(
                    NewAttrs(target[2]["_recovery_target_name"], target[2]["_recovery_target_id"]),
                    lastOp'.ex[1].resp).a]_vars

\* A target built from the full VMware document has been refreshed with that document:
\* its lists and its expiration time are what the construction made them.
C12_Witness ==
    /\ lastOp.op = "target_refresh"
    /\ refreshes = 1
    /\ lastOp.ex[1].resp = Response(TRUE, VMwareFull)
    /\ target[2]["_iso_paths"] = PyList(<<S2("i", "1")>>)
    /\ target[2]["_destination_network"] = PyList(<<S2("n", "1")>>)
    /\ target[2]["_expiration_time"] = PyStr(<<"2">> \o Days)
    /\ target[2]["_policy_type"] = PyInt(13)

\* The numeric PolicyTypes of the spec.
PolicyCodes == {PyInt(1), PyInt(2), PyInt(7), PyInt(13), PyInt(-1)}

\* C13: after a successful load (construction or refresh) the PolicyType is the one the
\* spec's table gives the document's entity.policyType: 1 for "AMAZON", 2 for
\* "MICROSOFT", 7 for "AZURE_RESOURCE_MANAGER", 13 for "VMW_BACKUP_LABTEMPLATE" and for
\* "VMW_LIVEMOUNT", -1 for any other value and for a missing policyType; the PolicyType
\* of a held RecoveryTarget is always one of 1, 2, 7, 13, -1.
C13_PolicyTypeTotal ==
    /\ target # Missing => target[2]["_policy_type"] \in PolicyCodes
    /\ (lastOp.op \in {"target_new", "target_refresh"} /\ ~IsErr(lastOp.ret)) =>
          target[2]["_policy_type"] = CodeOf(lastOp.ex[Len(lastOp.ex)].resp.body)

\* A target built as VMware has been refreshed with a document that has no policyType:
\* its PolicyType is now -1.
C13_Witness ==
    /\ lastOp.op = "target_refresh"
    /\ ~IsErr(lastOp.ret)
    /\ lastOp.ex[1].resp = Response(TRUE, PolicyDoc(Missing))
    /\ target[2]["_policy_type"] = PyInt(-1)
    /\ target[2]["_datastore"] = EmptyStr

\* C14: has_recovery_target(name) and get(name) called with a name that is not a string
\* raise SDKException('Target', '101') and do nothing else: no request is issued, the held
\* RecoveryTarget is not replaced, and the cached mapping is as it was.
C14_NonStringRejected ==
    [][(lastOp'.op \in {"has_recovery_target", "get"} /\ lastOp'.arg[1][1] # "str") =>
          /\ lastOp'.ret = InvalidInputError
          /\ lastOp'.ex = <<>>
          /\ target' = target
          /\ catalog' = catalog
          /\ lastList' = lastList]_vars

\* get(7) on a loaded catalog that lists a target, while a RecoveryTarget is held.
C14_Witness ==
    /\ lastOp.op = "get"
    /\ lastOp.arg = <<PyInt(7)>>
    /\ lastOp.ret = InvalidInputError
    /\ lastOp.ex = <<>>
    /\ catalog[2] # {}
    /\ target # Missing

\* C15: a refresh() that raises an SDKException of module 'Response' changes nothing: a
\* failed RecoveryTargets.refresh() leaves the cached mapping as it was, and a failed
\* RecoveryTarget.refresh() leaves the raw document, the PolicyType and every other
\* attribute as they were.
C15_FailedRefreshKeepsState ==
    [][(lastOp'.op \in {"catalog_refresh", "target_refresh"} /\ IsResponseError(lastOp'.ret)) =>
          /\ catalog' = catalog
          /\ lastList' = lastList
          /\ target' = target]_vars

\* A target built from the full AMAZON document, beside a catalog that lists a target, has
\* been refreshed with an answer that has no entity: the refresh raised the ResponseError
\* of code 102 and the AMAZON document is still held.
C15_Witness ==
    /\ lastOp.op = "target_refresh"
    /\ lastOp.ex[1].resp = Response(TRUE, PyDict({<<"errorCode", PyInt(1)>>}))
    /\ lastOp.ret = ResponseError102
    /\ target[2]["_recovery_target_properties"] = AwsFull
    /\ target[2]["_policy_type"] = PyInt(1)
    /\ catalog # Missing
    /\ catalog[2] # {}

====
